---- MODULE Spec2Model ----
(***************************************************************************)
(* A model of src/ResNetSPN.py: the staged trainer EinetUtils.start_train   *)
(* (warmup phase, activate_einet, main phase, early stopping, single-slot   *)
(* checkpoint) and the uncertainty model it drives (einet_active,           *)
(* per-parameter requires_grad, forward routing).                           *)
(*                                                                         *)
(* Parameter tensors are abstracted to version numbers: the parameters of   *)
(* a group carry the index of the optimizer step that last wrote them       *)
(* (0 = the values the constructor gave them).  Python's 0-based feature     *)
(* indices are written 1-based.                                             *)
(***************************************************************************)
EXTENDS Integers, Sequences, FiniteSets, TLC

\* ---------------------------------------------------------------- bounds
MaxEpochs == 3
MaxPatience == 2
NumTrainBatches == 1
NumValidBatches == 1
InputLen == 3
MaxExplaining == 2
EmbedWidth == 2
MaxClasses == 3          \* classes of a per-class output vector: 2..MaxClasses
MaxLL == 2               \* per-class outputs range over -MaxLL..MaxLL
ExpTerms == 8            \* terms of the series exp is computed by

\* ------------------------------------------------------ program constants
\* lowest_val_loss = torch.inf : larger than every summed validation loss
Inf == 999
\* Numbers with a fraction are integers counted in units of 1/Scale.
Scale == 1000

\* loss_v.item() of one validation batch, as the feed and the parameters
\* make it.
BatchLosses == {0, 1}

\* The parameter groups of a model: the Backbone's feature extractor, the
\* Backbone's terminal linear classifier (classifier / fc) and the Circuit
\* Head (self.einet).
Groups == {"resnet", "fc", "einet"}
Backbone == {"resnet", "fc"}
CircuitHead == {"einet"}

Phases == {"Warmup", "Main"}

\* Parameters as the constructor leaves them.
InitParams == [g \in Groups |-> 0]
\* A checkpoint.pt left in checkpoint_dir by an earlier run.
StaleParams == [g \in Groups |-> 0 - 1]
NoFile == [g \in Groups |-> 0 - 2]
NoParams == [g \in Groups |-> 0 - 3]

VARIABLES
    \* ---- the model object
    seperate_training,   \* constructor argument
    einet_active,        \* self.einet_active
    requires_grad,       \* param.requires_grad, per group
    params,              \* parameter values, per group
    grad,                \* param.grad is not None, per group
    training,            \* nn.Module.training (train / eval mode)
    \* ---- start_train arguments
    warmup_epochs, num_epochs, deactivate_resnet, early_stop, checkpoint_dir,
    lr_schedule_resnet,  \* an lr scheduler is passed (not None)
    lr_schedule_einet,   \* the same
    \* ---- start_train locals
    pc, phase, epoch, batch, val_increase, lowest_val_loss, val_loss, ret,
    \* ---- the file checkpoint_dir + "checkpoint.pt"
    ckpt_file,
    \* ---- history (not program state)
    steps,               \* optimizer steps executed so far
    last_step,           \* the last optimizer step: phase, loss output, params before / after
    hist,                \* summed validation loss of each finished epoch of the phase
    epoch_params,        \* parameters at the end of each finished epoch of the phase
    n_saves, n_loads,    \* save / load calls, per phase
    n_batches,           \* training batches run, per phase
    log,                 \* the events so far, consecutive repetitions collapsed
    activations,         \* the arguments of the activate_einet calls so far
    phase_start,         \* parameters each phase began with
    after_restore,       \* parameters each phase's restore step left
    sched_steps,         \* step() calls made so far, per lr scheduler
    \* ---- the model's configuration and its last forward call
    variant,             \* the model class
    explaining_vars,     \* self.explaining_vars (1-based positions)
    marginalized_scopes, \* self.marginalized_scopes
    fwd_in,              \* the input of the last call, when it was a forward call
    output,              \* what the last call returned, when it was a forward call
                         \* (net names the error, when the call raised one)
    last_call,           \* the last call made on the model, and the flags it found
    \* ---- the last explain_ll / explain_mpe call, and the save / load round trip
    evals,               \* the Circuit Head evaluations the call made, in order
    explanations,        \* what the call returned
    fresh,               \* a second model object, constructed and then loaded
    \* ---- eval_dempster_shafer on a feed of one sample
    lls,                 \* lls = self(data): the sample's per-class outputs
    lls_norm,            \* the normalized values
    uncertainties,       \* the list returned
    \* ---- one call of an experiment's run function
    experiment,          \* which run function
    model_params,        \* the caller's dictionary, as the function has left it
    train_params,        \* the same
    run_pc,              \* the position in the run function
    raised,              \* the error the call raised to its caller, if any
    train_calls,         \* start_train invocations made by the call
    config               \* history: the dictionaries, model name, block and levels
                         \* passed in, and the number of calls made with them

modelVars == <<seperate_training, einet_active, requires_grad, params, grad, training>>
argVars == <<warmup_epochs, num_epochs, deactivate_resnet, early_stop, checkpoint_dir,
             lr_schedule_resnet, lr_schedule_einet>>
localVars == <<pc, phase, epoch, batch, val_increase, lowest_val_loss, val_loss, ret>>
histVars == <<steps, last_step, hist, epoch_params, n_saves, n_loads, n_batches, log,
              activations, phase_start, after_restore, sched_steps>>
callVars == <<evals, explanations, fresh>>
dsVars == <<lls, lls_norm, uncertainties>>
runVars == <<experiment, model_params, train_params, run_pc, raised, train_calls, config>>
fwdVars == <<variant, explaining_vars, marginalized_scopes, fwd_in, output, last_call,
             callVars, dsVars, runVars>>
vars == <<modelVars, argVars, localVars, ckpt_file, histVars, fwdVars>>

\* ---------------------------------------------------------------- helpers
Append1(s, e) == IF Len(s) > 0 /\ s[Len(s)] = e THEN s ELSE Append(s, e)

\* DenseResNetSPN.__init__ / ConvResNetSPN.__init__ / ConvResnetDDU.__init__:
\* einet_active and the requires_grad flags after construction.
CtorEinetActive(sep) == ~sep
CtorRequiresGrad(sep) == [g \in Groups |-> IF sep THEN g \notin CircuitHead ELSE TRUE]

\* activate_einet: the requires_grad flags it leaves.  (Two faulty variants
\* first: one ignores deactivate_resnet, one lacks the final loop over
\* self.einet.parameters().)
ActivateEinetNoFreeze(rg, freeze) == [g \in Groups |-> TRUE]
ActivateEinetHeadStaysFrozen(rg, freeze) == [g \in Groups |-> ~freeze]
ActivateEinetFlags(rg, freeze) ==
    LET all == [g \in Groups |-> IF freeze THEN FALSE ELSE TRUE]
    IN  [g \in Groups |-> IF g \in CircuitHead THEN TRUE ELSE all[g]]

\* activate_einet: self.einet_active = True, whatever it was.  (Faulty
\* variant first: the flag is flipped.)
ActivateEinetFlips(active) == ~active
ActivateEinetActive(active) == TRUE

\* forward: which sub-network produces the output.
ForwardRoute(active) == IF active THEN "einet" ELSE "fc"

\* The parameter groups on the autograd graph of an output.
Graph(route) == IF route = "einet" THEN {"resnet", "einet"} ELSE {"resnet", "fc"}

\* optimizer.zero_grad(): no parameter holds a gradient (set_to_none, the
\* default of torch 2).
ZeroGrad(g) == [x \in Groups |-> FALSE]

\* loss_v.backward(): the trainable parameters the loss depends on get a gradient.
Backward(g, route, rg) == [x \in Groups |-> g[x] \/ (x \in Graph(route) /\ rg[x])]

\* optimizer.step(): every parameter holding a gradient is rewritten, by
\* values no earlier step produced; a parameter without gradient is skipped.
\* The optimizer is the caller's and holds all parameters of the model.
OptimizerStep(p, g, k) == [x \in Groups |-> IF g[x] THEN k ELSE p[x]]

\* One training batch (lines 40-47 and 88-98): optimizer.zero_grad(), the
\* forward pass and the loss, loss_v.backward(), optimizer.step(), in this
\* order; k numbers the step.  (Faulty variant first: the step taken before
\* the backward pass.)
TrainStepBeforeBackward(p, g, route, rg, k) ==
    LET g0 == ZeroGrad(g)
    IN  [grad |-> Backward(g0, route, rg), params |-> OptimizerStep(p, g0, k)]
TrainStep(p, g, route, rg, k) ==
    LET g0 == ZeroGrad(g)
        g1 == Backward(g0, route, rg)
    IN  [grad |-> g1, params |-> OptimizerStep(p, g1, k)]

\* The early-stopping block of one epoch (lines 64-75 and 118-129): whether
\* the loop breaks, the counters it leaves, and whether it saves.  (Two
\* faulty variants first: `>` for `>=`, and a save on every epoch; a third:
\* a save on strict improvement only; a fourth: `>=` for `>` in the
\* comparison of the losses; a fifth: no save while the best is unset; a
\* sixth: the patience test made after every epoch.)
DecideTestsEveryEpoch(vl, lowest, inc, limit, dir) ==
    IF vl > lowest
    THEN [stop |-> inc + 1 >= limit, val_increase |-> inc + 1,
          lowest_val_loss |-> lowest, save |-> FALSE]
    ELSE [stop |-> 0 >= limit, val_increase |-> 0, lowest_val_loss |-> vl, save |-> dir]
DecideFirstEpochUnsaved(vl, lowest, inc, limit, dir) ==
    IF vl > lowest
    THEN [stop |-> inc + 1 >= limit, val_increase |-> inc + 1,
          lowest_val_loss |-> lowest, save |-> FALSE]
    ELSE [stop |-> FALSE, val_increase |-> 0, lowest_val_loss |-> vl,
          save |-> dir /\ lowest # Inf]
DecideEqualIsWorse(vl, lowest, inc, limit, dir) ==
    IF vl >= lowest
    THEN [stop |-> inc + 1 >= limit, val_increase |-> inc + 1,
          lowest_val_loss |-> lowest, save |-> FALSE]
    ELSE [stop |-> FALSE, val_increase |-> 0, lowest_val_loss |-> vl, save |-> dir]
DecideSavesStrict(vl, lowest, inc, limit, dir) ==
    IF vl > lowest
    THEN [stop |-> inc + 1 >= limit, val_increase |-> inc + 1,
          lowest_val_loss |-> lowest, save |-> FALSE]
    ELSE [stop |-> FALSE, val_increase |-> 0, lowest_val_loss |-> vl,
          save |-> dir /\ vl < lowest]
DecideStopsLate(vl, lowest, inc, limit, dir) ==
    IF vl > lowest
    THEN [stop |-> inc + 1 > limit, val_increase |-> inc + 1,
          lowest_val_loss |-> lowest, save |-> FALSE]
    ELSE [stop |-> FALSE, val_increase |-> 0, lowest_val_loss |-> vl, save |-> dir]
DecideSavesWorse(vl, lowest, inc, limit, dir) ==
    IF vl > lowest
    THEN [stop |-> inc + 1 >= limit, val_increase |-> inc + 1,
          lowest_val_loss |-> lowest, save |-> dir]
    ELSE [stop |-> FALSE, val_increase |-> 0, lowest_val_loss |-> vl, save |-> dir]
Decide(vl, lowest, inc, limit, dir) ==
    IF vl > lowest
    THEN [stop |-> inc + 1 >= limit, val_increase |-> inc + 1,
          lowest_val_loss |-> lowest, save |-> FALSE]
    ELSE [stop |-> FALSE, val_increase |-> 0, lowest_val_loss |-> vl, save |-> dir]

\* lines 83-84: lowest_val_loss = torch.inf; val_increase = 0 before the
\* Main loop.  (Faulty variant first: Warmup's values carried over.)
MainCountersCarried(inc, lowest) == [val_increase |-> inc, lowest_val_loss |-> lowest]
MainCounters(inc, lowest) == [val_increase |-> 0, lowest_val_loss |-> Inf]

\* `if checkpoint_dir is not None: self.load(...)` after a phase's loop.
\* (Faulty variant first: the guard dropped.)
RestoresAlways(dir) == TRUE
Restores(dir) == dir

\* The two optional lr schedulers, and the one each phase's loop steps
\* (lines 48-49 and 99-100).  (Faulty variant first: both loops step
\* lr_schedule_resnet.)
Schedulers == {"resnet", "einet"}
PhaseSchedulerResnetOnly(ph) == "resnet"
PhaseScheduler(ph) == IF ph = "Warmup" THEN "resnet" ELSE "einet"

Budget(ph) == IF ph = "Warmup" THEN warmup_epochs ELSE num_epochs

\* Where control goes after a phase's restore: line 82, or the end of the
\* function.
AfterPhase(ph) == IF ph = "Warmup" THEN "activate" ELSE "done"

\* start_train has no return statement: falling off its end returns None.
ReturnValue(ph, r) == IF ph = "Warmup" THEN r ELSE "None"

\* line 82: the argument start_train passes to activate_einet.  (Faulty
\* variant first: the argument left to its default, True.)
ActivateArgDefault(flag) == TRUE
ActivateArg(flag) == flag

\* marginalized_scopes = None
None == <<>>
NoOutput == [net |-> "none", evidence |-> <<>>, scope |-> None, head_evals |-> 0,
             temp |-> FALSE, weights |-> 0]

\* The three model classes that mix EinetUtils in.
Variants == {"DenseResNetSPN", "ConvResNetSPN", "ConvResnetDDU"}

\* One (flattened) input sample, and the explaining_vars lists a model may
\* be configured with: positions of the input, in any order.
FeatureValues == {0, 1}
Inputs == [1..InputLen -> FeatureValues]
Range(q) == {q[i] : i \in 1..Len(q)}
ExplainingChoices ==
    {q \in UNION {[1..n -> 1..InputLen] : n \in 0..MaxExplaining} :
        \A i \in 1..Len(q) : \A j \in 1..Len(q) : i # j => q[i] # q[j]}

\* exp_vars = x[:, self.explaining_vars]: the raw values, in list order.
ExpVars(x, ev) == [i \in 1..Len(ev) |-> <<"x", x[ev[i]]>>]

\* mask[:, self.explaining_vars] = False; x = x[mask]: the other positions,
\* in their original order.  (Faulty variant first: nothing is masked.)
MaskKeepsAll(x, ev) == x
RECURSIVE MaskFrom(_, _, _)
MaskFrom(x, ev, i) ==
    IF i > Len(x) THEN <<>>
    ELSE (IF i \in Range(ev) THEN <<>> ELSE <<x[i]>>) \o MaskFrom(x, ev, i + 1)
Mask(x, ev) == MaskFrom(x, ev, 1)

\* forward_hidden: the embedding, EmbedWidth features, each a function of
\* the Backbone's parameters and of the masked input.
ForwardHidden(inp, p) == [j \in 1..EmbedWidth |-> <<"h", j, p["resnet"], inp>>]

\* torch.cat([hidden, exp_vars], dim=1).  (Faulty variant first: the two
\* swapped.)
CatExpVarsFirst(hidden, exp_vars) == exp_vars \o hidden
Cat(hidden, exp_vars) == hidden \o exp_vars

\* DenseResNetSPN.forward / ConvResNetSPN._forward_impl / ConvResnetDDU.forward
Forward(v, x, ev, active, scope, p) ==
    LET exp_vars == ExpVars(x, ev)
        hidden == ForwardHidden(Mask(x, ev), p)
    IN  IF active
        THEN [net |-> "einet", evidence |-> Cat(hidden, exp_vars),
              scope |-> IF v = "DenseResNetSPN" THEN None ELSE scope,
              head_evals |-> 1, temp |-> FALSE, weights |-> p["einet"]]
        ELSE [net |-> "fc", evidence |-> hidden, scope |-> None, head_evals |-> 0,
              temp |-> (v = "ConvResnetDDU"), weights |-> p["fc"]]

\* eval_ll on a feed of one sample x: one forward call under the model's
\* marginalized_scopes of the moment; the value returned is the mean of that
\* call's output.
EvalLL(v, x, ev, active, scope, p) ==
    [scope_attr |-> scope, out |-> Forward(v, x, ev, active, scope, p)]
MeanLL(eval) == <<"mean", eval.out>>

\* self.einet.mpe(evidence, marginalized_scopes): the evidence vector with
\* the positions of the scope replaced by their most probable values.
Mpe(evidence, scope) ==
    [j \in 1..Len(evidence) |->
        IF j \in Range(scope) THEN <<"mpe", j>> ELSE evidence[j]]

\* self.image_shape: set by ConvResNetSPN.__init__ and ConvResnetDDU.__init__
\* only.
HasImageShape(v) == v \in {"ConvResNetSPN", "ConvResnetDDU"}

\* explain_ll: self.marginalized_scopes = [i].  (Faulty variant first: the
\* scope stays empty.)
ScopeNone(i) == None
SingleScope(i) == <<i>>

NoCall == [op |-> "none", arg |-> FALSE, pre_active |-> FALSE,
           pre_grad |-> [g \in Groups |-> FALSE], pre_training |-> TRUE,
           pre_scopes |-> None]

\* No second model object has been constructed.
NoFresh == [einet_active |-> FALSE, marginalized_scopes |-> None, params |-> NoParams]

\* ------------------------------------------------------------------- Init
\* The model after construction (the three __init__ methods).
Constructed ==
    /\ seperate_training \in BOOLEAN
    /\ einet_active = CtorEinetActive(seperate_training)
    /\ requires_grad = CtorRequiresGrad(seperate_training)
    /\ params = InitParams
    /\ grad = [g \in Groups |-> FALSE]
    /\ training = TRUE
    /\ marginalized_scopes = None
    /\ fwd_in = <<>>
    /\ output = NoOutput
    /\ last_call = NoCall
    /\ evals = <<>>
    /\ explanations = <<>>
    /\ fresh = NoFresh

\* No eval_dempster_shafer call has been made.
NotEvaluated ==
    /\ lls_norm = <<>>
    /\ uncertainties = <<>>

\* No run function has been called.
NotRun ==
    /\ experiment = "none"
    /\ model_params = <<>>
    /\ train_params = <<>>
    /\ run_pc = "idle"
    /\ raised = "none"
    /\ train_calls = 0
    /\ config = <<>>

\* No start_train call has begun.
NotStarted ==
    /\ pc = "call"
    /\ phase = "Warmup"
    /\ epoch = 0
    /\ batch = 0
    /\ val_increase = 0
    /\ lowest_val_loss = Inf
    /\ val_loss = 0
    /\ ret = "unset"
    /\ steps = 0
    /\ last_step = [phase |-> "none", route |-> "none", before |-> NoParams, after |-> NoParams]
    /\ hist = <<>>
    /\ epoch_params = <<>>
    /\ n_saves = [p \in Phases |-> 0]
    /\ n_loads = [p \in Phases |-> 0]
    /\ n_batches = [p \in Phases |-> 0]
    /\ log = <<>>
    /\ activations = <<>>
    /\ phase_start = [p \in Phases |-> NoParams]
    /\ after_restore = [p \in Phases |-> NoParams]
    /\ sched_steps = [x \in Schedulers |-> 0]

\* start_train is about to be called on a freshly constructed model: the
\* arguments are the caller's, and checkpoint_dir may hold the checkpoint.pt
\* of an earlier run.  start_train is inherited unchanged by the three model
\* classes and reads neither the class nor explaining_vars.
Init ==
    /\ Constructed
    /\ NotStarted
    /\ NotEvaluated
    /\ lls = <<>>
    /\ NotRun
    /\ variant = "DenseResNetSPN"
    /\ explaining_vars = <<>>
    /\ warmup_epochs \in 0..MaxEpochs
    /\ num_epochs \in 0..MaxEpochs
    /\ deactivate_resnet \in BOOLEAN
    /\ early_stop \in 1..MaxPatience
    /\ lr_schedule_resnet = FALSE
    /\ lr_schedule_einet = FALSE
    /\ checkpoint_dir \in BOOLEAN
    /\ ckpt_file \in IF checkpoint_dir THEN {NoFile, StaleParams} ELSE {NoFile}

\* ---------------------------------------------------------------- actions
\* lines 33-35: self.train(); val_increase = 0; lowest_val_loss = inf
StartTrain ==
    /\ pc = "call"
    /\ training' = TRUE
    /\ val_increase' = 0
    /\ lowest_val_loss' = Inf
    /\ phase' = "Warmup"
    /\ epoch' = 0
    /\ pc' = "epoch"
    /\ phase_start' = [phase_start EXCEPT !["Warmup"] = params]
    /\ UNCHANGED <<fwdVars, seperate_training, einet_active, requires_grad, params, grad,
                   argVars, batch, val_loss, ret, ckpt_file, steps, last_step, hist,
                   epoch_params, n_saves, n_loads, n_batches, log, activations,
                   after_restore, sched_steps>>

\* `for epoch in range(...)`: the next epoch starts, or the loop is exhausted.
EpochHead ==
    /\ pc = "epoch"
    /\ IF epoch < Budget(phase)
       THEN pc' = "train" /\ batch' = 0
       ELSE pc' = "restore" /\ batch' = batch
    /\ UNCHANGED <<fwdVars, modelVars, argVars, phase, epoch, val_increase, lowest_val_loss,
                   val_loss, ret, ckpt_file, histVars>>

\* One training batch (lines 40-47 and 88-98): zero_grad, forward, loss,
\* backward, optimizer step.
TrainBatch ==
    /\ pc = "train"
    /\ batch < NumTrainBatches
    /\ LET route == ForwardRoute(einet_active)
           t == TrainStep(params, grad, route, requires_grad, steps + 1)
           p1 == t.params
       IN  /\ grad' = t.grad
           /\ params' = p1
           /\ steps' = steps + 1
           /\ last_step' = [phase |-> phase, route |-> route, before |-> params, after |-> p1]
    /\ batch' = batch + 1
    /\ n_batches' = [n_batches EXCEPT ![phase] = @ + 1]
    /\ log' = Append1(log, <<"batch", phase>>)
    /\ pc' = IF batch + 1 = NumTrainBatches THEN "sched" ELSE pc
    /\ UNCHANGED <<fwdVars, seperate_training, einet_active, requires_grad, training, argVars,
                   phase, epoch, val_increase, lowest_val_loss, val_loss, ret, ckpt_file,
                   hist, epoch_params, n_saves, n_loads, activations, phase_start,
                   after_restore, sched_steps>>

\* After the training loop of an epoch (lines 48-51 and 99-101): the phase's
\* lr scheduler, if one was passed, is stepped; val_loss = 0.0.
SchedulerStep ==
    /\ pc = "sched"
    /\ LET given == IF PhaseScheduler(phase) = "resnet" THEN lr_schedule_resnet
                    ELSE lr_schedule_einet
       IN  sched_steps' = IF given
                          THEN [sched_steps EXCEPT ![PhaseScheduler(phase)] = @ + 1]
                          ELSE sched_steps
    /\ val_loss' = 0
    /\ pc' = "valid"
    /\ UNCHANGED <<fwdVars, modelVars, argVars, phase, epoch, batch, val_increase,
                   lowest_val_loss, ret, ckpt_file, steps, last_step, hist, epoch_params,
                   n_saves, n_loads, n_batches, log, activations, phase_start,
                   after_restore>>

\* One validation batch under torch.no_grad() (lines 53-59 and 104-113):
\* zero_grad, forward, val_loss += loss_v.item().
ValidBatch ==
    /\ pc = "valid"
    /\ \E l \in BatchLosses :
          /\ val_loss' = val_loss + l
          /\ grad' = ZeroGrad(grad)
          /\ IF batch + 1 = NumTrainBatches + NumValidBatches
             THEN pc' = "decide"
             ELSE pc' = pc
          /\ batch' = batch + 1
    /\ UNCHANGED <<fwdVars, seperate_training, einet_active, requires_grad, params, training,
                   argVars, phase, epoch, val_increase, lowest_val_loss, ret, ckpt_file,
                   histVars>>

\* The early-stopping block at the end of an epoch (lines 64-75 and 118-129).
EarlyStopping ==
    /\ pc = "decide"
    /\ LET d == Decide(val_loss, lowest_val_loss, val_increase, early_stop, checkpoint_dir)
       IN  /\ val_increase' = d.val_increase
           /\ lowest_val_loss' = d.lowest_val_loss
           /\ IF d.save
              THEN /\ ckpt_file' = params
                   /\ n_saves' = [n_saves EXCEPT ![phase] = @ + 1]
                   /\ log' = Append1(log, <<"save", phase>>)
              ELSE UNCHANGED <<ckpt_file, n_saves, log>>
           /\ pc' = IF d.stop THEN "restore" ELSE "epoch"
    /\ epoch' = epoch + 1
    /\ hist' = Append(hist, val_loss)
    /\ epoch_params' = Append(epoch_params, params)
    /\ UNCHANGED <<fwdVars, modelVars, argVars, phase, batch, val_loss, ret, steps, last_step,
                   n_loads, n_batches, activations, phase_start, after_restore,
                   sched_steps>>

\* self.state_dict(): the parameters of every group.  The flags
\* einet_active and marginalized_scopes are plain attributes and no part of it.
StateDict(p) == [g \in Groups |-> p[g]]

\* Values torch.nn.init.normal_ draws: no values any step or file holds.
DrawnParams == [g \in Groups |-> 0 - 4]

\* load(path, resnet_only): load_state_dict(torch.load(path)); with resnet_only
\* the Circuit Head's parameters are drawn anew.  (Faulty variant first:
\* resnet_only ignored.)
LoadAll(file, resnet_only) == file
Load(file, resnet_only) ==
    [g \in Groups |-> IF resnet_only /\ g \in CircuitHead THEN DrawnParams[g] ELSE file[g]]

\* `if checkpoint_dir is not None: self.load(checkpoint_dir + "checkpoint.pt")`
\* (lines 77-79 and 130-132); torch.load raises when the file does not exist.
Restore ==
    /\ pc = "restore"
    /\ IF Restores(checkpoint_dir)
       THEN /\ n_loads' = [n_loads EXCEPT ![phase] = @ + 1]
            /\ log' = Append1(log, <<"load", phase>>)
            /\ IF ckpt_file = NoFile
               THEN /\ pc' = "error"
                    /\ UNCHANGED <<params, ret, after_restore>>
               ELSE /\ params' = Load(ckpt_file, FALSE)
                    /\ after_restore' = [after_restore EXCEPT ![phase] = Load(ckpt_file, FALSE)]
                    /\ pc' = AfterPhase(phase)
                    /\ ret' = ReturnValue(phase, ret)
       ELSE /\ pc' = AfterPhase(phase)
            /\ ret' = ReturnValue(phase, ret)
            /\ after_restore' = [after_restore EXCEPT ![phase] = params]
            /\ UNCHANGED <<params, n_loads, log>>
    /\ UNCHANGED <<fwdVars, seperate_training, einet_active, requires_grad, grad, training,
                   argVars, phase, epoch, batch, val_increase, lowest_val_loss, val_loss,
                   ckpt_file, steps, last_step, hist, epoch_params, n_saves, n_batches,
                   activations, phase_start, sched_steps>>

\* lines 82-84: self.activate_einet(deactivate_resnet); the counters are reset.
Activate ==
    /\ pc = "activate"
    /\ einet_active' = ActivateEinetActive(einet_active)
    /\ requires_grad' = ActivateEinetFlags(requires_grad, ActivateArg(deactivate_resnet))
    /\ lowest_val_loss' = MainCounters(val_increase, lowest_val_loss).lowest_val_loss
    /\ val_increase' = MainCounters(val_increase, lowest_val_loss).val_increase
    /\ phase' = "Main"
    /\ epoch' = 0
    /\ pc' = "epoch"
    /\ hist' = <<>>
    /\ epoch_params' = <<>>
    /\ log' = Append1(log, <<"activate", "Main">>)
    /\ activations' = Append(activations, ActivateArg(deactivate_resnet))
    /\ phase_start' = [phase_start EXCEPT !["Main"] = params]
    /\ UNCHANGED <<fwdVars, seperate_training, params, grad, training, argVars, batch, val_loss,
                   ret, ckpt_file, steps, last_step, n_saves, n_loads, n_batches,
                   after_restore, sched_steps>>

\* The round trip, once start_train has returned: model.save(path) to a path
\* of the caller's, a second model constructed with the same arguments, and
\* load(path) on it.
SaveLoadFresh ==
    /\ pc = "done"
    /\ last_call.op = "none"
    /\ LET file == StateDict(params)
       IN  fresh' = [einet_active |-> CtorEinetActive(seperate_training),
                     marginalized_scopes |-> None,
                     params |-> Load(file, FALSE)]
    /\ last_call' = [NoCall EXCEPT !.op = "save_load"]
    /\ UNCHANGED <<modelVars, argVars, localVars, ckpt_file, histVars, variant,
                   explaining_vars, marginalized_scopes, fwd_in, output, evals,
                   explanations, dsVars, runVars>>

Next ==
    \/ StartTrain
    \/ EpochHead
    \/ TrainBatch
    \/ SchedulerStep
    \/ ValidBatch
    \/ EarlyStopping
    \/ Restore
    \/ Activate
    \/ SaveLoadFresh

Spec == Init /\ [][Next]_vars

\* =================================================================
\* The claims about start_train, checked under Spec.
\* =================================================================

\* The vocabulary of the claims, defined on the history of the phase's
\* summed validation losses alone.
RECURSIVE BestBefore(_, _)
BestBefore(h, i) ==
    IF i <= 1 THEN Inf
    ELSE LET b == BestBefore(h, i - 1)
         IN  IF h[i - 1] < b THEN h[i - 1] ELSE b

\* Epoch i was strictly worse than the best of the epochs before it.
Worse(h, i) == h[i] > BestBefore(h, i)

\* The number of epochs at the end of h that were each worse.
TrailingWorse(h) ==
    Cardinality({k \in 1..Len(h) : \A j \in k..Len(h) : Worse(h, j)})

\* The last epoch that was not worse (the first epoch never is).
LastImproving(h) ==
    CHOOSE i \in 1..Len(h) :
        /\ ~Worse(h, i)
        /\ \A j \in (i + 1)..Len(h) : Worse(h, j)

PhaseRunning == pc \in {"epoch", "train", "sched", "valid", "decide"}
PhaseOver == pc \in {"restore", "activate", "done", "error"}

\* C1: with patience L >= 1, a phase keeps running only while fewer than L
\* consecutive epochs were worse than the best-so-far, and a phase that ended
\* before its epoch budget ended exactly when the L-th consecutive worse
\* epoch finished: not earlier, and no training batch of the phase follows.
C1_EarlyStopExact ==
    early_stop >= 1 =>
        /\ PhaseRunning => TrailingWorse(hist) < early_stop
        /\ (PhaseOver /\ Len(hist) < Budget(phase)) => TrailingWorse(hist) = early_stop

C1_Witness ==
    /\ pc = "done"
    /\ Len(hist) < num_epochs
    /\ Len(hist) >= 2
    /\ TrailingWorse(hist) = early_stop

\* C2: with a checkpoint directory, when a phase that ran at least one epoch
\* has ended and restored, the parameters are those of the end of the last
\* epoch of the phase that was not worse than the best-so-far.
C2_RestoredIsLastImproving ==
    (checkpoint_dir /\ pc \in {"activate", "done"} /\ Len(hist) > 0) =>
        params = epoch_params[LastImproving(hist)]

C2_Witness ==
    /\ checkpoint_dir
    /\ pc = "done"
    /\ Len(hist) >= 2
    /\ LastImproving(hist) < Len(hist)
    /\ params # epoch_params[Len(hist)]

\* C3: a phase with an epoch budget of zero writes no checkpoint, loads no
\* checkpoint and leaves the parameters as they were.
C3_ZeroBudgetPhaseIsNoOp ==
    \A p \in Phases :
        Budget(p) = 0 =>
            /\ n_saves[p] = 0
            /\ n_loads[p] = 0
            /\ after_restore[p] \in {NoParams, phase_start[p]}

\* C4: start_train with warmup_epochs = 0 and num_epochs = 0 runs no
\* training batch, writes no checkpoint and returns the validation loss of
\* the untrained model.
C4_ZeroEpochsReturnsInitialLoss ==
    (pc = "done" /\ warmup_epochs = 0 /\ num_epochs = 0) =>
        /\ \A p \in Phases : n_batches[p] = 0 /\ n_saves[p] = 0
        /\ ret = "initial_val_loss"

\* C5: without a checkpoint directory nothing is ever saved or loaded, and
\* start_train returns with the parameters the last optimizer step produced
\* (the constructor's values when no step ran).
C5_NoCheckpointDirNoPersistence ==
    ~checkpoint_dir =>
        /\ \A p \in Phases : n_saves[p] = 0 /\ n_loads[p] = 0
        /\ ckpt_file = NoFile
        /\ pc # "error"
        /\ pc = "done" => params = IF steps = 0 THEN InitParams ELSE last_step.after

C5_Witness ==
    /\ ~checkpoint_dir
    /\ pc = "done"
    /\ Len(hist) >= 2
    /\ LastImproving(hist) < Len(hist)
    /\ n_batches["Warmup"] > 0
    /\ params = last_step.after

\* The place of an event in the order Warmup epochs, Warmup restore,
\* activate_einet, Main epochs, Main restore.
Rank(e) ==
    IF e[1] = "activate" THEN 3
    ELSE IF e[1] = "load" THEN (IF e[2] = "Warmup" THEN 2 ELSE 5)
    ELSE (IF e[2] = "Warmup" THEN 1 ELSE 4)

\* C6: the events of a run are ordered Warmup epochs, Warmup restore, one
\* activate_einet(deactivate_resnet), Main epochs, Main restore; every Main
\* batch and the return come after exactly one activate_einet call, and the
\* first Main batch starts from the parameters the Warmup restore left.
C6_PhaseOrder ==
    /\ \A i \in 1..Len(log) : \A j \in (i + 1)..Len(log) :
          /\ Rank(log[i]) <= Rank(log[j])
          /\ Rank(log[i]) \in {2, 3, 5} => Rank(log[i]) < Rank(log[j])
    /\ Len(activations) <= 1
    /\ (phase = "Main" \/ n_batches["Main"] > 0 \/ pc = "done") =>
          activations = <<deactivate_resnet>>
    /\ (phase = "Warmup") => activations = <<>>
    /\ (last_step.phase = "Main" /\ n_batches["Main"] = 1) =>
          last_step.before = after_restore["Warmup"]

C6_Witness ==
    /\ pc = "done"
    /\ checkpoint_dir
    /\ ~deactivate_resnet
    /\ n_batches["Warmup"] >= 2
    /\ n_batches["Main"] >= 2
    /\ n_loads["Warmup"] = 1
    /\ n_loads["Main"] = 1

\* C7: an optimizer step of the Warmup phase changes no Circuit Head
\* parameter, and the Warmup loss is computed on the Backbone's
\* classification output, whatever seperate_training was.
C7_WarmupUpdatesBackboneOnly ==
    last_step.phase = "Warmup" =>
        /\ \A g \in CircuitHead : last_step.after[g] = last_step.before[g]
        /\ last_step.route = "fc"

\* C9: a Main-phase optimizer step changes the Circuit Head parameters, and
\* changes Backbone parameters only when deactivate_resnet is false; with
\* deactivate_resnet true the Backbone parameters on return are those the
\* Main phase began with.
C9_MainFrozenBackbone ==
    /\ last_step.phase = "Main" =>
          /\ \A g \in CircuitHead : last_step.after[g] # last_step.before[g]
          /\ deactivate_resnet =>
                \A g \in Backbone : last_step.after[g] = last_step.before[g]
    /\ (pc = "done" /\ deactivate_resnet) =>
          \A g \in Backbone : params[g] = phase_start["Main"][g]

C9_Witness ==
    /\ pc = "done"
    /\ deactivate_resnet
    /\ checkpoint_dir
    /\ n_batches["Warmup"] >= 1
    /\ n_batches["Main"] >= 2
    /\ LastImproving(hist) < Len(hist)
    /\ \A g \in CircuitHead : params[g] # phase_start["Main"][g]

\* =================================================================
\* The model object under the calls its users make on it, outside
\* start_train: SpecModel.
\* =================================================================
InitModel ==
    /\ Constructed
    /\ NotStarted
    /\ NotEvaluated
    /\ lls = <<>>
    /\ NotRun
    /\ variant \in Variants
    /\ explaining_vars \in ExplainingChoices
    /\ warmup_epochs = 0
    /\ num_epochs = 0
    /\ deactivate_resnet = TRUE
    /\ early_stop = 1
    /\ lr_schedule_resnet = FALSE
    /\ lr_schedule_einet = FALSE
    /\ checkpoint_dir = FALSE
    /\ ckpt_file = NoFile

\* model.activate_einet(deactivate_resnet)
CallActivateEinet ==
    \E flag \in BOOLEAN :
        /\ einet_active' = ActivateEinetActive(einet_active)
        /\ requires_grad' = ActivateEinetFlags(requires_grad, flag)
        /\ last_call' = [op |-> "activate_einet", arg |-> flag,
                         pre_active |-> einet_active, pre_grad |-> requires_grad]
        /\ fwd_in' = <<>>
        /\ output' = NoOutput
        /\ evals' = <<>>
        /\ explanations' = <<>>
        /\ UNCHANGED <<seperate_training, params, grad, training, argVars, localVars,
                       ckpt_file, histVars, variant, explaining_vars,
                       marginalized_scopes, fresh, dsVars, runVars>>

\* model.einet_active = False / True: the evaluation code switches the route
\* (dirty_mnist_experiment.py lines 207 and 213).
SetEinetActive ==
    \E flag \in BOOLEAN :
        /\ einet_active' = flag
        /\ last_call' = [NoCall EXCEPT !.op = "set_einet_active", !.arg = flag]
        /\ fwd_in' = <<>>
        /\ output' = NoOutput
        /\ evals' = <<>>
        /\ explanations' = <<>>
        /\ UNCHANGED <<seperate_training, requires_grad, params, grad, training,
                       argVars, localVars, ckpt_file, histVars, variant,
                       explaining_vars, marginalized_scopes, fresh, dsVars, runVars>>

\* model(x)
CallForward ==
    \E x \in Inputs :
        /\ fwd_in' = x
        /\ output' = Forward(variant, x, explaining_vars, einet_active,
                             marginalized_scopes, params)
        /\ last_call' = [NoCall EXCEPT !.op = "forward"]
        /\ evals' = <<>>
        /\ explanations' = <<>>
        /\ UNCHANGED <<modelVars, argVars, localVars, ckpt_file, histVars, variant,
                       explaining_vars, marginalized_scopes, fresh, dsVars, runVars>>

\* model.explain_ll(dl, device), dl a feed of one sample x.
\*   ll_default = self.eval_ll(dl, device)
\*   for i in self.explaining_vars:
\*       self.marginalized_scopes = [i]; ll_marg = self.eval_ll(dl, device)
\*       explanations.append(ll_default - ll_marg)
\*   self.marginalized_scopes = None
\* eval_ll begins with self.eval().
CallExplainLL ==
    \E x \in Inputs :
        LET ll_default == EvalLL(variant, x, explaining_vars, einet_active,
                                 marginalized_scopes, params)
            ll_marg == [k \in 1..Len(explaining_vars) |->
                           EvalLL(variant, x, explaining_vars, einet_active,
                                  SingleScope(explaining_vars[k]), params)]
        IN  /\ evals' = <<ll_default>> \o ll_marg
            /\ explanations' = [k \in 1..Len(explaining_vars) |->
                                   [minuend |-> MeanLL(ll_default),
                                    subtrahend |-> MeanLL(ll_marg[k])]]
            /\ marginalized_scopes' = None
            /\ training' = FALSE
            /\ fwd_in' = x
            /\ output' = NoOutput
            /\ last_call' = [NoCall EXCEPT !.op = "explain_ll",
                                            !.pre_active = einet_active,
                                            !.pre_grad = requires_grad,
                                            !.pre_training = training,
                                            !.pre_scopes = marginalized_scopes]
            /\ UNCHANGED <<seperate_training, einet_active, requires_grad, params, grad,
                           argVars, localVars, ckpt_file, histVars, variant,
                           explaining_vars, fresh, dsVars, runVars>>

\* model.explain_mpe(dl, device), dl a feed of one sample x.
\*   exp_vars = data[:, self.explaining_vars]; data = data[mask]
\*   if self.image_shape is not None: ...      (no such attribute: raises)
\*   hidden = torch.cat([self.forward_hidden(data), exp_vars], dim=1)
\*   mpe = self.einet.mpe(evidence=hidden, marginalized_scopes=self.explaining_vars)
\*   expl_var_mpes.append(mpe[:, self.explaining_vars])
\*   return torch.abs(expl_var_mpes - expl_var_vals).mean(dim=0)
CallExplainMPE ==
    \E x \in Inputs :
        LET exp_vars == ExpVars(x, explaining_vars)
            hidden == Cat(ForwardHidden(Mask(x, explaining_vars), params), exp_vars)
            mpe == Mpe(hidden, explaining_vars)
            in_range == \A k \in 1..Len(explaining_vars) :
                            explaining_vars[k] <= Len(hidden)
        IN  /\ fwd_in' = x
            /\ last_call' = [NoCall EXCEPT !.op = "explain_mpe",
                                            !.pre_active = einet_active,
                                            !.pre_grad = requires_grad,
                                            !.pre_training = training,
                                            !.pre_scopes = marginalized_scopes]
            /\ IF ~HasImageShape(variant)
               THEN /\ output' = [NoOutput EXCEPT !.net = "AttributeError"]
                    /\ evals' = <<>>
                    /\ explanations' = <<>>
               ELSE IF ~in_range
               THEN /\ output' = [NoOutput EXCEPT !.net = "IndexError"]
                    /\ evals' = <<[scope_attr |-> explaining_vars, out |-> mpe]>>
                    /\ explanations' = <<>>
               ELSE /\ output' = NoOutput
                    /\ evals' = <<[scope_attr |-> explaining_vars, out |-> mpe]>>
                    /\ explanations' = [k \in 1..Len(explaining_vars) |->
                                           [minuend |-> mpe[explaining_vars[k]],
                                            subtrahend |-> exp_vars[k]]]
            /\ UNCHANGED <<modelVars, argVars, localVars, ckpt_file, histVars, variant,
                           explaining_vars, marginalized_scopes, fresh, dsVars, runVars>>

NextModel ==
    \/ CallActivateEinet
    \/ SetEinetActive
    \/ CallForward

SpecModel == InitModel /\ [][NextModel]_vars

\* The constructed model under forward calls and the two explanation
\* analyses: SpecExplain.
NextExplain ==
    \/ CallForward
    \/ CallExplainLL
    \/ CallExplainMPE

SpecExplain == InitModel /\ [][NextExplain]_vars

\* C8: after activate_einet(True) einet_active is true, no Backbone parameter
\* is trainable and every Circuit Head parameter is; after
\* activate_einet(False) einet_active is true and every parameter is
\* trainable; for every model class and whatever the flags were before.
C8_ActivateEinetFlags ==
    last_call.op = "activate_einet" =>
        /\ einet_active
        /\ \A g \in CircuitHead : requires_grad[g]
        /\ \A g \in Backbone : requires_grad[g] = ~last_call.arg

C8_Witness ==
    /\ last_call.op = "activate_einet"
    /\ last_call.arg
    /\ variant = "ConvResnetDDU"
    /\ ~last_call.pre_active
    /\ \A g \in CircuitHead : ~last_call.pre_grad[g]
    /\ \A g \in Backbone : last_call.pre_grad[g] /\ ~requires_grad[g]

\* C10: the route of a forward call is decided by einet_active alone.  When
\* it is true the Circuit Head is evaluated once, on the embedding followed
\* by the raw values at the explaining_vars positions in list order; when it
\* is false the output is the Backbone's classification output on the
\* embedding and the Circuit Head is not evaluated.
C10_ForwardRouting ==
    last_call.op = "forward" =>
        /\ \A j \in 1..EmbedWidth :
              /\ output.evidence[j][1] = "h"
              /\ output.evidence[j][2] = j
        /\ IF einet_active
           THEN /\ output.net = "einet"
                /\ output.head_evals = 1
                /\ Len(output.evidence) = EmbedWidth + Len(explaining_vars)
                /\ \A i \in 1..Len(explaining_vars) :
                      output.evidence[EmbedWidth + i] = <<"x", fwd_in[explaining_vars[i]]>>
           ELSE /\ output.net = "fc"
                /\ output.head_evals = 0
                /\ Len(output.evidence) = EmbedWidth

C10_Witness ==
    /\ last_call.op = "forward"
    /\ einet_active
    /\ requires_grad = [g \in Groups |-> TRUE]
    /\ explaining_vars = <<3, 1>>
    /\ fwd_in = <<0, 1, 1>>
    /\ output.evidence[EmbedWidth + 1] = <<"x", 1>>
    /\ output.evidence[EmbedWidth + 2] = <<"x", 0>>

\* =================================================================
\* eval_dempster_shafer as a function of one sample's per-class outputs:
\* SpecDS.
\* =================================================================
LLValues == (0 - MaxLL)..MaxLL
LLVectors == UNION {[1..n -> LLValues] : n \in 2..MaxClasses}

RECURSIVE SumTo(_, _)
SumTo(q, n) == IF n = 0 THEN 0 ELSE q[n] + SumTo(q, n - 1)
Sum(q) == SumTo(q, Len(q))
Abs(a) == IF a < 0 THEN 0 - a ELSE a
MaxAbs(q) == CHOOSE m \in {Abs(q[i]) : i \in 1..Len(q)} :
                 \A i \in 1..Len(q) : Abs(q[i]) <= m

\* lls - torch.mean(lls, dim=1): kept exact as the centred values times the
\* number of classes.
Centred(l) == [i \in 1..Len(l) |-> Len(l) * l[i] - Sum(l)]

\* Floating-point division, the quotient kept as a fraction p / q: 0 / 0 is
\* NaN.  (The divisor here is the largest absolute value among the dividends,
\* so it is zero only when every dividend is.)  Faulty variant first: a
\* guarded division that yields 0.
NaN == [nan |-> TRUE, p |-> 0, q |-> 1]
DivideZeroSafe(p, q) ==
    IF q = 0 THEN [nan |-> FALSE, p |-> 0, q |-> 1] ELSE [nan |-> FALSE, p |-> p, q |-> q]
Divide(p, q) ==
    IF q = 0 THEN NaN ELSE [nan |-> FALSE, p |-> p, q |-> q]

\* lls_norm = lls - mean; lls_norm = lls_norm / max(abs(lls_norm)).  (Faulty
\* variant first: the division by the largest absolute value is left out.)
NormalizeCentredOnly(l) == [i \in 1..Len(l) |-> Divide(Centred(l)[i], Len(l))]
Normalize(l) ==
    LET c == Centred(l)
    IN  [i \in 1..Len(l) |-> Divide(c[i], MaxAbs(c))]

\* torch.exp of the fraction p / q, in units of 1/Scale: the sum of the first
\* terms of the exponential series, each term derived from the one before.
\* exp(NaN) is NaN.
RECURSIVE ExpTerm(_, _, _)
ExpTerm(p, q, k) == IF k = 0 THEN Scale ELSE (ExpTerm(p, q, k - 1) * p) \div (q * k)
RECURSIVE ExpSeries(_, _, _)
ExpSeries(p, q, k) ==
    IF k = 0 THEN ExpTerm(p, q, 0) ELSE ExpTerm(p, q, k) + ExpSeries(p, q, k - 1)
Exp(t) == IF t.nan THEN [nan |-> TRUE, v |-> 0]
          ELSE [nan |-> FALSE, v |-> ExpSeries(t.p, t.q, ExpTerms)]

\* uncertainty = num_classes / (num_classes + torch.sum(torch.exp(lls_norm))),
\* kept as the fraction num / den; NaN when a summand is.
Uncertainty(norm) ==
    LET e == [i \in 1..Len(norm) |-> Exp(norm[i])]
    IN  IF \E i \in 1..Len(norm) : e[i].nan
        THEN [nan |-> TRUE, num |-> 0, den |-> 1]
        ELSE [nan |-> FALSE, num |-> Len(norm) * Scale,
              den |-> Len(norm) * Scale + Sum([i \in 1..Len(norm) |-> e[i].v])]

\* A constructed model and a feed of one sample on which the model answers lls.
InitDS ==
    /\ Constructed
    /\ NotStarted
    /\ NotEvaluated
    /\ lls \in LLVectors
    /\ NotRun
    /\ variant = "DenseResNetSPN"
    /\ explaining_vars = <<>>
    /\ warmup_epochs = 0
    /\ num_epochs = 0
    /\ deactivate_resnet = TRUE
    /\ early_stop = 1
    /\ lr_schedule_resnet = FALSE
    /\ lr_schedule_einet = FALSE
    /\ checkpoint_dir = FALSE
    /\ ckpt_file = NoFile

\* model.eval_dempster_shafer(dl, device, return_all=True), lines 207-235.
EvalDempsterShafer ==
    /\ uncertainties = <<>>
    /\ training' = FALSE
    /\ lls_norm' = Normalize(lls)
    /\ uncertainties' = <<Uncertainty(Normalize(lls))>>
    /\ last_call' = [NoCall EXCEPT !.op = "eval_dempster_shafer",
                                    !.pre_active = einet_active,
                                    !.pre_grad = requires_grad,
                                    !.pre_training = training,
                                    !.pre_scopes = marginalized_scopes]
    /\ UNCHANGED <<seperate_training, einet_active, requires_grad, params, grad, argVars,
                   localVars, ckpt_file, histVars, variant, explaining_vars,
                   marginalized_scopes, fwd_in, output, callVars, lls, runVars>>

NextDS == EvalDempsterShafer

SpecDS == InitDS /\ [][NextDS]_vars

\* C16 (as the program has it): for a 2-class sample whose two per-class
\* log-likelihoods are equal, such as [-1, -1], the centred values are both
\* zero, the division by their largest absolute value is 0 / 0, and the
\* normalized values and the uncertainty are NaN.
C16_EqualPairIsNaN ==
    (uncertainties # <<>> /\ Len(lls) = 2 /\ lls[1] = lls[2]) =>
        /\ \A i \in 1..2 : lls_norm[i].nan
        /\ uncertainties[1].nan

\* C16 (as stated): for such a sample the normalized values are [0, 0] and
\* the uncertainty is 2 / (2 + 2) = 0.5.
C16_EqualPairIsHalf ==
    (uncertainties # <<>> /\ Len(lls) = 2 /\ lls[1] = lls[2]) =>
        /\ \A i \in 1..2 : ~lls_norm[i].nan /\ lls_norm[i].p = 0
        /\ ~uncertainties[1].nan
        /\ 2 * uncertainties[1].num = uncertainties[1].den

C16_Witness ==
    /\ lls = <<0 - 1, 0 - 1>>
    /\ uncertainties # <<>>
    /\ Centred(lls) = <<0, 0>>
    /\ uncertainties[1].nan

Constant(l) == \A i \in 1..Len(l) : \A j \in 1..Len(l) : l[i] = l[j]

\* C17 (as the program has it): the uncertainty of a vector whose entries are
\* all equal is NaN; that of any other vector lies strictly between 0 and 1;
\* and for 2 classes with unequal entries it is one and the same number,
\* 2 / (2 + e + 1/e), whichever class is the larger and whatever the gap,
\* because the normalized values are always +1 and -1.
C17_RangeAndTwoClassConstant ==
    uncertainties # <<>> =>
        LET u == uncertainties[1]
        IN  /\ Constant(lls) => u.nan
            /\ ~Constant(lls) => (~u.nan /\ 0 < u.num /\ u.num < u.den)
            /\ (Len(lls) = 2 /\ ~Constant(lls)) =>
                  /\ {lls_norm[1].p * lls_norm[2].q, lls_norm[2].p * lls_norm[1].q}
                       = {lls_norm[1].q * lls_norm[2].q, 0 - lls_norm[1].q * lls_norm[2].q}
                  /\ \A v \in LLVectors :
                        (Len(v) = 2 /\ ~Constant(v)) => Uncertainty(Normalize(v)) = u

\* C17 (as stated): the uncertainty of every vector lies in (0, 1], and for
\* 2 classes a vector in which the first class's log-likelihood is larger
\* relative to the second's has an uncertainty that is no larger.
C17_InRangeAndDecreasing ==
    uncertainties # <<>> =>
        LET u == uncertainties[1]
        IN  /\ ~u.nan
            /\ 0 < u.num
            /\ u.num <= u.den
            /\ Len(lls) = 2 =>
                  \A v \in LLVectors :
                      (Len(v) = 2 /\ v[1] - v[2] > lls[1] - lls[2]) =>
                          LET w == Uncertainty(Normalize(v))
                          IN  ~w.nan /\ w.num * u.den <= u.num * w.den

C17_Witness ==
    /\ lls = <<0 - 2, 0>>
    /\ uncertainties # <<>>
    /\ ~uncertainties[1].nan
    /\ uncertainties[1].den > 2 * uncertainties[1].num
    /\ Uncertainty(Normalize(<<0, 0 - 1>>)) = uncertainties[1]

\* =================================================================
\* One call of an experiment's run function, up to its start_train call:
\* SpecRun.
\* =================================================================
Experiments == {"start_two_moons_run", "start_dirty_mnist_run", "start_cifar10_calib_run",
                "start_cifar10_expl_run", "start_svhn_calib_run"}

\* The model names each run function has a branch for.
Dispatched(exp) ==
    IF exp \in {"start_dirty_mnist_run", "start_cifar10_expl_run"}
    THEN {"ConvResNetSPN", "ConvResNetDDU", "AutoEncoderSPN", "EfficientNetSPN"}
    ELSE IF exp \in {"start_cifar10_calib_run", "start_svhn_calib_run"}
    THEN {"ConvResNetSPN", "ConvResNetDDU", "AutoEncoderSPN", "EfficientNetSPN",
          "EfficientNetGMM", "EfficientNetSNGP", "ConvResnetDDUGMM"}
    ELSE {}

\* The branches that read model_params["block"], and the keys each deletes
\* before it constructs the model.
WithBlock == {"ConvResNetSPN", "ConvResNetDDU", "ConvResnetDDUGMM"}
BranchKeys(name) ==
    IF name = "ConvResNetSPN" THEN {"block", "layers", "spectral_normalization", "mod"}
    ELSE IF name \in WithBlock THEN {"block", "layers", "spec_norm_bound"}
    ELSE {}

\* `from ResNetSPN import <class>`: the classes ResNetSPN.py defines.
InResNetSPN == {"ConvResNetSPN", "ConvResNetDDU"}

\* if block == "basic" ... elif block == "bottleneck" ... else: raise
\* NotImplementedError.  (Faulty variant first: the else branch falls back to
\* a block class.)
BlockChoiceDefaults(b) == IF b = "basic" THEN "basic" ELSE "bottleneck"
BlockChoice(b) ==
    IF b = "basic" THEN "basic"
    ELSE IF b = "bottleneck" THEN "bottleneck"
    ELSE "NotImplementedError"

\* The keyword arguments DenseResNetSPN(**model_params) accepts; any other
\* reaches nn.Linear in make_output_layer, which raises TypeError.
DenseArgs == {"spec_norm_bound", "explaining_vars", "seperate_training", "input_dim",
              "output_dim", "num_layers", "num_hidden", "dropout_rate"}

\* del d[k], for every k of ks.
Del(d, ks) == [x \in DOMAIN d \ ks |-> d[x]]

\* The dictionaries a caller may pass.
ModelNames == Dispatched("start_svhn_calib_run") \cup {"OtherNet"}
BlockNames == {"basic", "bottleneck", "other"}
ConvParams(name, block) ==
    [k \in {"model", "block", "layers", "spectral_normalization", "mod", "spec_norm_bound",
            "explaining_vars"} |->
        IF k = "model" THEN name ELSE IF k = "block" THEN block ELSE "set"]
DenseParams == [k \in {"input_dim", "output_dim", "explaining_vars"} |-> "set"]
ModelParamsChoices ==
    {ConvParams(n, b) : n \in ModelNames, b \in BlockNames}
    \cup {Del(ConvParams("OtherNet", b), {"model"}) : b \in BlockNames}
    \cup {DenseParams}
TrainParams(levels) ==
    [k \in {"num_epochs", "corruption_levels_train"} |->
        IF k = "corruption_levels_train" THEN levels ELSE "set"]
TrainParamsChoices ==
    {TrainParams("list"), TrainParams("int"),
     Del(TrainParams("list"), {"corruption_levels_train"})}
Get(d, k) == IF k \in DOMAIN d THEN d[k] ELSE "absent"

\* A run function is about to be called on the caller's dictionaries.
InitRun ==
    /\ Constructed
    /\ NotStarted
    /\ NotEvaluated
    /\ lls = <<>>
    /\ variant = "DenseResNetSPN"
    /\ explaining_vars = <<>>
    /\ warmup_epochs = 0
    /\ num_epochs = 0
    /\ deactivate_resnet = TRUE
    /\ early_stop = 1
    /\ lr_schedule_resnet = FALSE
    /\ lr_schedule_einet = FALSE
    /\ checkpoint_dir = FALSE
    /\ ckpt_file = NoFile
    /\ experiment \in Experiments
    /\ model_params \in ModelParamsChoices
    /\ train_params \in TrainParamsChoices
    /\ run_pc = "entry"
    /\ raised = "none"
    /\ train_calls = 0
    /\ config = [model |-> Get(model_params, "model"), block |-> Get(model_params, "block"),
                 levels |-> Get(train_params, "corruption_levels_train"),
                 model_params |-> model_params, train_params |-> train_params,
                 calls |-> 1]

Raise(error) ==
    /\ raised' = error
    /\ run_pc' = "raised"

\* The run function up to its model dispatch.  start_cifar10_expl_run reads
\* and deletes train_params["corruption_levels_train"] and raises ValueError
\* when it is not a list (lines 171-174); the others read neither dictionary.
RunEntry ==
    /\ run_pc = "entry"
    /\ IF experiment = "start_cifar10_expl_run"
       THEN IF "corruption_levels_train" \notin DOMAIN train_params
            THEN Raise("KeyError") /\ UNCHANGED train_params
            ELSE /\ train_params' = Del(train_params, {"corruption_levels_train"})
                 /\ IF train_params["corruption_levels_train"] # "list"
                    THEN Raise("ValueError")
                    ELSE run_pc' = "dispatch" /\ UNCHANGED raised
       ELSE /\ run_pc' = IF experiment = "start_two_moons_run" THEN "construct"
                         ELSE "dispatch"
            /\ UNCHANGED <<train_params, raised>>
    /\ UNCHANGED <<modelVars, argVars, localVars, ckpt_file, histVars, variant,
                   explaining_vars, marginalized_scopes, fwd_in, output, last_call,
                   callVars, dsVars, experiment, model_params, train_calls, config>>

\* The model dispatch: model_name = model_params["model"]; del
\* model_params["model"]; the branch of the name imports the class, chooses
\* the block, deletes the keys it consumed and constructs the model; no
\* branch: raise NotImplementedError.
RunDispatch ==
    /\ run_pc = "dispatch"
    /\ IF "model" \notin DOMAIN model_params
       THEN Raise("KeyError") /\ UNCHANGED model_params
       ELSE LET name == model_params["model"]
                d == Del(model_params, {"model"})
            IN  IF name \notin Dispatched(experiment)
                THEN Raise("NotImplementedError") /\ model_params' = d
                ELSE IF name \notin InResNetSPN
                THEN Raise("ImportError") /\ model_params' = d
                ELSE IF name \in WithBlock /\ BlockChoice(d["block"]) = "NotImplementedError"
                THEN Raise("NotImplementedError") /\ model_params' = d
                ELSE /\ model_params' = Del(d, BranchKeys(name))
                     /\ run_pc' = "train"
                     /\ UNCHANGED raised
    /\ UNCHANGED <<modelVars, argVars, localVars, ckpt_file, histVars, variant,
                   explaining_vars, marginalized_scopes, fwd_in, output, last_call,
                   callVars, dsVars, experiment, train_params, train_calls, config>>

\* start_two_moons_run: resnet_spn = DenseResNetSPN(**model_params).
RunConstructDense ==
    /\ run_pc = "construct"
    /\ IF DOMAIN model_params \subseteq DenseArgs
       THEN run_pc' = "train" /\ UNCHANGED raised
       ELSE Raise("TypeError")
    /\ UNCHANGED <<modelVars, argVars, localVars, ckpt_file, histVars, variant,
                   explaining_vars, marginalized_scopes, fwd_in, output, last_call,
                   callVars, dsVars, experiment, model_params, train_params, train_calls,
                   config>>

\* model.start_train(train_dl, valid_dl, device, ...) is invoked.
RunStartTrain ==
    /\ run_pc = "train"
    /\ train_calls' = train_calls + 1
    /\ run_pc' = "called"
    /\ UNCHANGED <<modelVars, argVars, localVars, ckpt_file, histVars, variant,
                   explaining_vars, marginalized_scopes, fwd_in, output, last_call,
                   callVars, dsVars, experiment, model_params, train_params, raised,
                   config>>

\* The caller calls the run function a second time with the same two
\* dictionary objects, as tune_conv does with start_cifar10_expl_run
\* (experiment_runner.py lines 232-239).
RunAgain ==
    /\ run_pc = "called"
    /\ config.calls = 1
    /\ config' = [config EXCEPT !.calls = 2]
    /\ run_pc' = "entry"
    /\ UNCHANGED <<modelVars, argVars, localVars, ckpt_file, histVars, variant,
                   explaining_vars, marginalized_scopes, fwd_in, output, last_call,
                   callVars, dsVars, experiment, model_params, train_params, raised,
                   train_calls>>

NextRun ==
    \/ RunEntry
    \/ RunDispatch
    \/ RunConstructDense
    \/ RunStartTrain
    \/ RunAgain

SpecRun == InitRun /\ [][NextRun]_vars

\* The configuration errors of a call: a model name the run function has no
\* branch for, a block type other than basic / bottleneck in a branch that
\* reads it, and for start_cifar10_expl_run a corruption-level argument that
\* is not a list.
Misconfigured ==
    \/ /\ Dispatched(experiment) # {}
       /\ config.model # "absent"
       /\ config.model \notin Dispatched(experiment)
    \/ /\ config.model \in Dispatched(experiment) \cap WithBlock
       /\ config.block \notin {"basic", "bottleneck"}
    \/ /\ experiment = "start_cifar10_expl_run"
       /\ config.levels \notin {"list", "absent"}

\* C18: a misconfigured call of a run function never invokes start_train,
\* and where the call ends it has raised an error to its caller.
C18_MisconfiguredRaisesBeforeTraining ==
    Misconfigured =>
        /\ train_calls = 0
        /\ run_pc \notin {"train", "called"}
        /\ run_pc = "raised" => raised # "none"

C18_Witness ==
    /\ experiment = "start_dirty_mnist_run"
    /\ config.model = "ConvResNetDDU"
    /\ config.block = "other"
    /\ "model" \notin DOMAIN model_params
    /\ "block" \in DOMAIN model_params
    /\ run_pc = "raised"
    /\ raised = "NotImplementedError"
    /\ train_calls = 0

\* C11: with einet_active true, every forward call of every model class
\* evaluates the Circuit Head under the marginalized_scopes the model holds at
\* the moment of the call: the scope the head is given is that attribute,
\* whether it is a one-index list (the calls explain_ll makes) or None.
C11_ForwardUsesScope ==
    /\ (last_call.op = "forward" /\ einet_active) =>
           output.scope = marginalized_scopes
    /\ (last_call.op = "explain_ll" /\ einet_active) =>
           \A k \in 1..Len(evals) : evals[k].out.scope = evals[k].scope_attr

\* C12: the input the Backbone receives is the raw input with exactly the
\* explaining_vars positions excised and the other positions in their
\* original order.  Hence any input that differs from the one given only at
\* explaining_vars positions yields the same Backbone input and the same
\* embedding, and with einet_active false the same model output.
C12_BackboneBlindToExplaining ==
    last_call.op = "forward" =>
        LET keep == (1..InputLen) \ Range(explaining_vars)
            seen == output.evidence[1][4]
        IN  /\ Len(seen) = Cardinality(keep)
            /\ \A i \in keep : seen[Cardinality({j \in keep : j <= i})] = fwd_in[i]
            /\ \A y \in Inputs :
                  (\A i \in keep : y[i] = fwd_in[i]) =>
                      LET o == Forward(variant, y, explaining_vars, einet_active,
                                       marginalized_scopes, params)
                      IN  /\ \A j \in 1..EmbedWidth : o.evidence[j] = output.evidence[j]
                          /\ ~einet_active => o = output

C12_Witness ==
    /\ last_call.op = "forward"
    /\ ~einet_active
    /\ variant = "ConvResNetSPN"
    /\ explaining_vars = <<3, 1>>
    /\ fwd_in = <<1, 0, 1>>
    /\ output.evidence[1][4] = <<0>>

C14_ExplainMPEPerVariable ==
    last_call.op = "explain_mpe" =>
        /\ output.net = "none"
        /\ Len(explanations) = Len(explaining_vars)
        /\ \A k \in 1..Len(explaining_vars) :
              /\ explanations[k].subtrahend = <<"x", fwd_in[explaining_vars[k]]>>
              /\ explanations[k].minuend = <<"mpe", EmbedWidth + k>>

\* C20: the index explain_ll puts into the scope for the k-th explaining
\* variable is the position of that variable's value in the evidence vector
\* the Circuit Head is given, EmbedWidth + k, so that the position
\* marginalized holds that variable's raw value and not an embedding feature.
C20_ExplainLLScopeIsEvidencePosition ==
    (last_call.op = "explain_ll" /\ einet_active) =>
        \A k \in 1..Len(explaining_vars) :
            /\ evals[k + 1].scope_attr = <<EmbedWidth + k>>
            /\ \A j \in Range(evals[k + 1].scope_attr) :
                  evals[k + 1].out.evidence[j] = <<"x", fwd_in[explaining_vars[k]]>>

\* C15: after save(path) on a model and load(path) on a freshly constructed
\* model of the same configuration, the fresh model's forward output equals
\* the saved model's on every probe input, whatever training and
\* activate_einet calls the saved model went through before.
C15_RoundTrip ==
    last_call.op = "save_load" =>
        \A x \in Inputs :
            Forward(variant, x, explaining_vars, fresh.einet_active,
                    fresh.marginalized_scopes, fresh.params)
          = Forward(variant, x, explaining_vars, einet_active, marginalized_scopes, params)

\* C19: with a checkpoint directory there is one checkpoint file for both
\* phases.  An epoch writes it exactly when its summed validation loss is not
\* greater than the phase's best-so-far, each write replacing the content, so
\* that once the phase has finished an epoch the file holds the parameters of
\* the most recent such epoch; a Main phase that has written nothing yet finds
\* in it what Warmup left, and each phase's restore reads that same file.
C19_SingleSlotCheckpoint ==
    checkpoint_dir =>
        /\ n_saves[phase] = Cardinality({i \in 1..Len(hist) : ~Worse(hist, i)})
        /\ Len(hist) > 0 => ckpt_file = epoch_params[LastImproving(hist)]
        /\ (phase = "Main" /\ Len(hist) = 0) => ckpt_file = after_restore["Warmup"]
        /\ pc = "activate" => after_restore["Warmup"] = ckpt_file
        /\ pc = "done" => after_restore["Main"] = ckpt_file

C19_Witness ==
    /\ checkpoint_dir
    /\ pc = "done"
    /\ n_saves["Warmup"] >= 1
    /\ Len(hist) = 3
    /\ hist[1] = hist[2]
    /\ Worse(hist, 3)
    /\ n_saves["Main"] = 2
    /\ ckpt_file = epoch_params[2]
    /\ ckpt_file # epoch_params[1]
    /\ ckpt_file # epoch_params[3]
    /\ ckpt_file # after_restore["Warmup"]

\* =================================================================
\* More claims about start_train, checked under Spec.
\* =================================================================

\* The smallest summed validation loss of the epochs of h (torch.inf when
\* there is none yet).
MinLoss(h) == BestBefore(h, Len(h) + 1)

\* C21: within a phase, after each finished epoch the best marker
\* lowest_val_loss is the minimum of the raw summed validation losses of the
\* phase's epochs so far, and val_increase is the number of epochs since the
\* last epoch whose loss was not strictly greater than the best before it.
\* An epoch whose loss equals the best counts as not greater: the counter is
\* 0 after it, the best keeps its value, and with a checkpoint directory the
\* file is written again, with that epoch's parameters.
C21_BestIsMinCounterIsTrailing ==
    /\ lowest_val_loss = MinLoss(hist)
    /\ val_increase = TrailingWorse(hist)
    /\ (Len(hist) >= 2 /\ hist[Len(hist)] = BestBefore(hist, Len(hist))) =>
          /\ val_increase = 0
          /\ lowest_val_loss = BestBefore(hist, Len(hist))
          /\ checkpoint_dir => ckpt_file = epoch_params[Len(hist)]

C21_Witness ==
    /\ checkpoint_dir
    /\ pc = "epoch"
    /\ Len(hist) = 2
    /\ hist[1] = 1
    /\ hist[2] = 1
    /\ lowest_val_loss = 1
    /\ val_increase = 0
    /\ n_saves[phase] = 2
    /\ ckpt_file = epoch_params[2]
    /\ ckpt_file # epoch_params[1]

\* C22: the Main phase has its own patience counter and best marker: when
\* Main starts the counter is 0 and the marker is infinity, whatever Warmup
\* left in them, so that Main's first epoch is never worse and Main's
\* early stop counts Main's epochs only.
C22_MainCountersFresh ==
    phase = "Main" =>
        /\ Len(hist) = 0 => (val_increase = 0 /\ lowest_val_loss = Inf)
        /\ Len(hist) = 1 => (val_increase = 0 /\ lowest_val_loss = hist[1])
        /\ val_increase <= Len(hist)

\* Warmup stopped early (its counter stood at early_stop, its marker at a
\* finite loss) and Main has just begun.
C22_Witness ==
    /\ phase = "Main"
    /\ pc = "epoch"
    /\ Len(hist) = 0
    /\ n_batches["Warmup"] >= 2 * NumTrainBatches
    /\ n_batches["Warmup"] < warmup_epochs * NumTrainBatches
    /\ early_stop >= 1
    /\ val_increase = 0
    /\ lowest_val_loss = Inf

\* C23: with a checkpoint directory, the first epoch of every phase that
\* runs an epoch writes the checkpoint (its loss is never strictly greater
\* than the unset best), so the restore at the end of such a phase loads
\* parameters written during that phase of that call: not what the other
\* phase wrote, and not what an earlier call left in the directory.
C23_FirstEpochPersists ==
    (checkpoint_dir /\ Len(hist) >= 1) =>
        /\ ~Worse(hist, 1)
        /\ n_saves[phase] >= 1
        /\ Len(hist) = 1 => ckpt_file = epoch_params[1]
        /\ ckpt_file \in Range(epoch_params)
        /\ pc \in {"activate", "done"} =>
              /\ after_restore[phase] \in Range(epoch_params)
              /\ after_restore[phase] # StaleParams
              /\ after_restore[phase] # phase_start[phase]
        /\ pc = "done" => after_restore["Main"] # after_restore["Warmup"]

\* The directory held an earlier run's file (so Warmup began from the
\* constructor's parameters and wrote at least once), in Main only the first
\* of three epochs was saved, and the restore loaded it.
C23_Witness ==
    /\ checkpoint_dir
    /\ pc = "done"
    /\ n_saves["Warmup"] >= 1
    /\ Len(hist) = 3
    /\ n_saves["Main"] = 1
    /\ n_loads["Main"] = 1
    /\ after_restore["Main"] = epoch_params[1]
    /\ params = epoch_params[1]
    /\ params # epoch_params[3]

\* C24: start_train never switches einet_active from true to false: through
\* the whole Warmup phase the flag has the value the constructor gave it,
\* from the start of the Main phase on it is true, and it is true when
\* start_train returns.
C24_HeadActiveMonotone ==
    /\ phase = "Warmup" => einet_active = CtorEinetActive(seperate_training)
    /\ phase = "Main" => einet_active
    /\ pc = "done" => einet_active
    /\ (last_step.phase = "Warmup" /\ seperate_training) => last_step.route = "fc"
    /\ last_step.phase = "Main" => last_step.route = "einet"

\* A model built with seperate_training: Warmup trained with the flag false,
\* and start_train has returned with the flag true.
C24_Witness ==
    /\ pc = "done"
    /\ seperate_training
    /\ n_batches["Warmup"] >= 1
    /\ n_batches["Main"] >= 1
    /\ einet_active
    /\ last_step.route = "einet"

\* =================================================================
\* start_train with lr schedulers, and the claim checked under SpecSched.
\* =================================================================
\* start_train is about to be called with any combination of the two
\* optional schedulers, without a checkpoint directory.
InitSched ==
    /\ Constructed
    /\ NotStarted
    /\ NotEvaluated
    /\ lls = <<>>
    /\ NotRun
    /\ variant = "DenseResNetSPN"
    /\ explaining_vars = <<>>
    /\ warmup_epochs \in 0..MaxEpochs
    /\ num_epochs \in 0..MaxEpochs
    /\ deactivate_resnet = TRUE
    /\ early_stop \in 1..MaxPatience
    /\ lr_schedule_resnet \in BOOLEAN
    /\ lr_schedule_einet \in BOOLEAN
    /\ checkpoint_dir = FALSE
    /\ ckpt_file = NoFile

SpecSched == InitSched /\ [][Next]_vars

\* The number of epochs of phase ph that have got past the point between
\* the training loop and the validation loop.
PastTraining(ph) ==
    IF ph = phase
    THEN epoch + (IF pc \in {"valid", "decide"} THEN 1 ELSE 0)
    ELSE IF ph = "Warmup" THEN n_batches["Warmup"] \div NumTrainBatches ELSE 0

\* C25: each phase's lr scheduler, when one is passed, is stepped exactly
\* once per started epoch of its own phase, after that epoch's training
\* batches and before its validation, the epoch on which early stopping
\* triggers included; lr_schedule_resnet is never stepped in Main and
\* lr_schedule_einet never in Warmup, and a scheduler not passed is never
\* stepped.
C25_SchedulerOncePerEpoch ==
    /\ sched_steps["resnet"] = IF lr_schedule_resnet THEN PastTraining("Warmup") ELSE 0
    /\ sched_steps["einet"] = IF lr_schedule_einet THEN PastTraining("Main") ELSE 0
    /\ phase = "Warmup" => sched_steps["einet"] = 0
    /\ (PhaseOver /\ pc # "error") => PastTraining(phase) = Len(hist)

\* Both schedulers passed; both phases stopped early, after two epochs each.
C25_Witness ==
    /\ pc = "done"
    /\ lr_schedule_resnet
    /\ lr_schedule_einet
    /\ n_batches["Warmup"] = 2 * NumTrainBatches
    /\ warmup_epochs > 2
    /\ Len(hist) = 2
    /\ num_epochs > 2
    /\ sched_steps["resnet"] = 2
    /\ sched_steps["einet"] = 2

\* =================================================================
\* More claims about start_train, checked under Spec.
\* =================================================================

\* C26: a training batch clears the gradients, runs the forward pass and the
\* loss, backpropagates and then steps the optimizer, in this order: after
\* it exactly the trainable parameters the output depends on hold a gradient
\* (none left from an earlier batch) and exactly those were rewritten, by
\* this step.  Validation batches clear the gradients and never
\* backpropagate or step, so the parameters at the checkpoint decision are
\* those the epoch's last training batch left.
C26_BatchOrderAndValidationReadOnly ==
    /\ steps = n_batches["Warmup"] + n_batches["Main"]
    /\ (pc = "sched" \/ (pc = "train" /\ batch >= 1)) =>
          /\ last_step.phase = phase
          /\ params = last_step.after
          /\ \A x \in Groups :
                /\ grad[x] = (x \in Graph(last_step.route) /\ requires_grad[x])
                /\ last_step.after[x] = IF grad[x] THEN steps ELSE last_step.before[x]
    /\ pc \in {"valid", "decide"} =>
          /\ params = last_step.after
          /\ last_step.phase = phase
    /\ (pc = "decide" \/ (pc = "valid" /\ batch > NumTrainBatches)) =>
          \A x \in Groups : ~grad[x]
    /\ (pc = "epoch" /\ Len(hist) >= 1) =>
          epoch_params[Len(hist)] = last_step.after

\* A Main-phase epoch of a seperate_training model with the Backbone left
\* trainable is at its checkpoint decision: the classifier, which holds
\* Warmup's last values, was not stepped, the feature extractor and the
\* Circuit Head were, and validation has left no gradient.
C26_Witness ==
    /\ pc = "decide"
    /\ phase = "Main"
    /\ seperate_training
    /\ ~deactivate_resnet
    /\ n_batches["Warmup"] >= 1
    /\ params = last_step.after
    /\ params["fc"] = last_step.before["fc"]
    /\ params["fc"] > 0
    /\ params["resnet"] = steps
    /\ params["einet"] = steps
    /\ \A x \in Groups : ~grad[x]

\* =================================================================
\* The evaluation and explanation suite on a constructed model, in the
\* mode start_train or the caller left it in: SpecEval.
\* =================================================================
\* The four analyses of one shape: self.eval(), then under torch.no_grad()
\* one forward call per batch (lines 146-205).
EvalOps == {"eval_acc", "eval_ll", "eval_pred_variance", "eval_pred_entropy"}

\* All seven analyses.
Analyses == EvalOps \cup {"eval_dempster_shafer", "explain_ll", "explain_mpe"}

\* self.eval(): self.training = False, whatever it was.
EvalMode(mode) == FALSE

InitEval ==
    /\ Constructed
    /\ NotStarted
    /\ NotEvaluated
    /\ lls \in {l \in LLVectors : Len(l) = 2 /\ l[1] = 0 /\ l[2] \in {0, 1}}
    /\ NotRun
    /\ variant \in Variants
    /\ explaining_vars \in ExplainingChoices
    /\ warmup_epochs = 0
    /\ num_epochs = 0
    /\ deactivate_resnet = TRUE
    /\ early_stop = 1
    /\ lr_schedule_resnet = FALSE
    /\ lr_schedule_einet = FALSE
    /\ checkpoint_dir = FALSE
    /\ ckpt_file = NoFile

\* model.eval_acc(dl, device) and the three analyses of the same shape, dl a
\* feed of one sample x.
CallEval ==
    \E op \in EvalOps : \E x \in Inputs :
        /\ training' = EvalMode(training)
        /\ fwd_in' = x
        /\ output' = Forward(variant, x, explaining_vars, einet_active,
                             marginalized_scopes, params)
        /\ last_call' = [NoCall EXCEPT !.op = op,
                                        !.pre_active = einet_active,
                                        !.pre_grad = requires_grad,
                                        !.pre_training = training,
                                        !.pre_scopes = marginalized_scopes]
        /\ evals' = <<>>
        /\ explanations' = <<>>
        /\ UNCHANGED <<seperate_training, einet_active, requires_grad, params, grad,
                       argVars, localVars, ckpt_file, histVars, variant, explaining_vars,
                       marginalized_scopes, fresh, dsVars, runVars>>

\* model.eval(), called by the evaluation code itself
\* (cifar10_calib_experiment.py line 225).
CallModelEval ==
    /\ training
    /\ training' = EvalMode(training)
    /\ last_call' = [NoCall EXCEPT !.op = "eval"]
    /\ fwd_in' = <<>>
    /\ output' = NoOutput
    /\ evals' = <<>>
    /\ explanations' = <<>>
    /\ UNCHANGED <<seperate_training, einet_active, requires_grad, params, grad,
                   argVars, localVars, ckpt_file, histVars, variant, explaining_vars,
                   marginalized_scopes, fresh, dsVars, runVars>>

NextEval ==
    \/ CallEval
    \/ CallModelEval
    \/ EvalDempsterShafer
    \/ CallExplainLL
    \/ CallExplainMPE

SpecEval == InitEval /\ [][NextEval]_vars

\* C27: each of the seven analyses (eval_acc, eval_ll, eval_pred_variance,
\* eval_pred_entropy, eval_dempster_shafer, explain_ll, explain_mpe) leaves
\* the parameters, einet_active, the requires_grad flags, the
\* marginalization scope and the train / eval mode exactly as the caller had
\* them before the call.
C27_AnalysesLeaveModelAsFound ==
    last_call.op \in Analyses =>
        /\ params = InitParams
        /\ einet_active = last_call.pre_active
        /\ requires_grad = last_call.pre_grad
        /\ marginalized_scopes = last_call.pre_scopes
        /\ training = last_call.pre_training

\* =================================================================
\* The claim about the run functions' dictionaries, checked under SpecRun.
\* =================================================================
\* Two dictionaries hold the same keys with the same values.
SameDict(a, b) ==
    /\ DOMAIN a = DOMAIN b
    /\ \A k \in DOMAIN a : a[k] = b[k]

\* C28: a run function leaves the caller's model_params and train_params
\* as it found them, so that a second call with the same dictionaries
\* dispatches as the first did: having reached start_train once, it reaches
\* it again.
C28_RunLeavesDictionaries ==
    /\ run_pc \in {"called", "raised"} =>
          /\ SameDict(model_params, config.model_params)
          /\ SameDict(train_params, config.train_params)
    /\ (config.calls = 2 /\ run_pc \in {"called", "raised"}) =>
          /\ run_pc = "called"
          /\ train_calls = 2

\* =================================================================
\* start_train with a checkpoint directory, followed by a load call of the
\* caller's: SpecLoad, and the claim checked under it.
\* =================================================================
InitLoad ==
    /\ Constructed
    /\ NotStarted
    /\ NotEvaluated
    /\ lls = <<>>
    /\ NotRun
    /\ variant = "DenseResNetSPN"
    /\ explaining_vars = <<>>
    /\ warmup_epochs \in 0..MaxEpochs
    /\ num_epochs \in 0..MaxEpochs
    /\ deactivate_resnet \in BOOLEAN
    /\ early_stop \in 1..MaxPatience
    /\ lr_schedule_resnet = FALSE
    /\ lr_schedule_einet = FALSE
    /\ checkpoint_dir = TRUE
    /\ ckpt_file \in {NoFile, StaleParams}

\* model.load(path, resnet_only) on the file in checkpoint_dir, once
\* start_train has returned.
CallLoad ==
    /\ pc = "done"
    /\ last_call.op = "none"
    /\ ckpt_file # NoFile
    /\ \E resnet_only \in BOOLEAN :
          /\ params' = Load(ckpt_file, resnet_only)
          /\ last_call' = [NoCall EXCEPT !.op = "load", !.arg = resnet_only,
                                          !.pre_active = einet_active,
                                          !.pre_grad = requires_grad,
                                          !.pre_training = training,
                                          !.pre_scopes = marginalized_scopes]
    /\ UNCHANGED <<seperate_training, einet_active, requires_grad, grad, training,
                   argVars, localVars, ckpt_file, histVars, variant, explaining_vars,
                   marginalized_scopes, fwd_in, output, callVars, dsVars, runVars>>

NextLoad ==
    \/ StartTrain
    \/ EpochHead
    \/ TrainBatch
    \/ SchedulerStep
    \/ ValidBatch
    \/ EarlyStopping
    \/ Restore
    \/ Activate
    \/ SaveLoadFresh
    \/ CallLoad

SpecLoad == InitLoad /\ [][NextLoad]_vars

\* C29: load(path) replaces parameter values only: einet_active, the
\* marginalization scope and every requires_grad flag are as before, so the
\* restore that ends Warmup leaves the constructor's flags and the restore
\* that ends Main, run with deactivate_resnet, leaves the Backbone frozen and
\* the Circuit Head active.  load(path, resnet_only=True) moreover draws
\* every Circuit Head parameter anew, so that afterwards the Backbone's
\* parameters, and only they, are those of the file.
C29_LoadReplacesValuesOnly ==
    /\ last_call.op = "load" =>
          /\ einet_active = last_call.pre_active
          /\ requires_grad = last_call.pre_grad
          /\ marginalized_scopes = last_call.pre_scopes
          /\ \A g \in Backbone : params[g] = ckpt_file[g]
          /\ \A g \in CircuitHead : (params[g] = ckpt_file[g]) = ~last_call.arg
    /\ (checkpoint_dir /\ pc = "activate") =>
          /\ params = ckpt_file
          /\ einet_active = CtorEinetActive(seperate_training)
          /\ requires_grad = CtorRequiresGrad(seperate_training)
    /\ (checkpoint_dir /\ pc = "done" /\ last_call.op = "none") =>
          /\ params = ckpt_file
          /\ einet_active
          /\ marginalized_scopes = None
          /\ requires_grad = ActivateEinetFlags(CtorRequiresGrad(seperate_training),
                                                deactivate_resnet)
          /\ deactivate_resnet => \A g \in Backbone : ~requires_grad[g]

\* After a run with deactivate_resnet whose Main phase trained the head,
\* load(path, resnet_only=True): the Backbone is the file's and still frozen,
\* the head is neither the file's nor what training left.
C29_Witness ==
    /\ last_call.op = "load"
    /\ last_call.arg
    /\ checkpoint_dir
    /\ deactivate_resnet
    /\ n_loads["Main"] = 1
    /\ ckpt_file["einet"] > 0
    /\ params["einet"] # ckpt_file["einet"]
    /\ params["resnet"] = ckpt_file["resnet"]
    /\ params["fc"] = ckpt_file["fc"]
    /\ \A g \in Backbone : ~requires_grad[g]
    /\ requires_grad["einet"]
    /\ einet_active

\* =================================================================
\* start_train with any patience, zero and negative included:
\* SpecPatience, and the claim checked under it.
\* =================================================================
InitPatience ==
    /\ Constructed
    /\ NotStarted
    /\ NotEvaluated
    /\ lls = <<>>
    /\ NotRun
    /\ variant = "DenseResNetSPN"
    /\ explaining_vars = <<>>
    /\ warmup_epochs \in 0..MaxEpochs
    /\ num_epochs \in 0..MaxEpochs
    /\ deactivate_resnet = TRUE
    /\ early_stop \in (0 - 1)..MaxPatience
    /\ lr_schedule_resnet = FALSE
    /\ lr_schedule_einet = FALSE
    /\ checkpoint_dir = FALSE
    /\ ckpt_file = NoFile

SpecPatience == InitPatience /\ [][Next]_vars

Max(a, b) == IF a > b THEN a ELSE b

\* C30: the patience counter stays within 0..max(early_stop, 1).  The
\* early-stop test is made only at the end of an epoch that was strictly
\* worse than the best, so a phase never stops at the end of an epoch whose
\* loss was not greater; with early_stop zero or negative a phase behaves as
\* with early_stop = 1: it runs while no epoch was worse and stops at the end
\* of the first worse one.
C30_PatienceBounds ==
    /\ 0 <= val_increase
    /\ val_increase <= Max(early_stop, 1)
    /\ (PhaseOver /\ Len(hist) < Budget(phase)) =>
          /\ Len(hist) >= 2
          /\ Worse(hist, Len(hist))
          /\ val_increase = Max(early_stop, 1)
    /\ early_stop <= 1 =>
          /\ PhaseRunning => \A i \in 1..Len(hist) : ~Worse(hist, i)
          /\ PhaseOver => \A i \in 1..(Len(hist) - 1) : ~Worse(hist, i)
          /\ (PhaseOver /\ Len(hist) >= 1 /\ ~Worse(hist, Len(hist))) =>
                 Len(hist) = Budget(phase)

\* A negative patience: Main stopped at the end of its second epoch, its
\* first worse one, with an epoch of its budget left.
C30_Witness ==
    /\ early_stop < 0
    /\ pc = "done"
    /\ Len(hist) = 2
    /\ num_epochs > 2
    /\ Worse(hist, 2)
    /\ val_increase = 1
    /\ n_batches["Main"] = 2 * NumTrainBatches

====
